---- MODULE Spec2Model ----
(***************************************************************************)
(* Model of the momentum-data pipeline.                                    *)
(*                                                                         *)
(*   utils_common.py   upsert_history, retry_on_failure, parallel_process, *)
(*                     calculate_rsi, calculate_and_update_indicators      *)
(*   update_*_json.py  the daily update run (merge + indicator write),     *)
(*                     the cap on new instruments, the upbit run, entries  *)
(*                     without symbol, the write of the Catalog Document   *)
(*   rebuild_*.py      ticker entries one after the other, the paged       *)
(*   retry_failed_us   fetch of rebuild_upbit_history, the console         *)
(*                                                                         *)
(* The module holds one state machine per component.  Each component has   *)
(* its own variables; a component's specification keeps the variables of   *)
(* the other components at their idle values.                              *)
(***************************************************************************)
EXTENDS Integers, Sequences, FiniteSets, TLC

VARIABLES
    \* ---- upsert_history ------------------------------------------------
    history,        \* the list existing_history
    prevHistory,    \* the list as it was before the last call
    newRecord,      \* the new_record of the last call (NoRecord before any)
    fromEmpty,      \* TRUE iff the list was empty when first handed over
    \* ---- retry_on_failure ----------------------------------------------
    max_retries,    \* decorator argument
    base_delay,     \* decorator argument
    attempt,        \* loop variable of wrapper
    calls,          \* number of calls of func made so far
    failures,       \* number of those calls that raised
    sleeps,         \* the delays handed to time.sleep, in order
    notices,        \* number of retry notices printed
    rpc,            \* "idle" | "loop" | "returned" | "raised"
    outcome,        \* value returned / id of the exception propagated
    \* ---- parallel_process ----------------------------------------------
    nItems,         \* len(items); the items are 1..nItems
    max_workers,    \* size of the thread pool
    submitted,      \* number of items handed to executor.submit so far
    queue,          \* the executor's work queue (items not yet taken)
    worker,         \* worker -> item it is running, 0 when idle
    fstate,         \* item -> state of its future
    invoked,        \* item -> number of times func was called on it
    collected,      \* items whose future as_completed has yielded
    completed,      \* the counter completed
    results,        \* the list results
    failNotices,    \* the items of the failure lines printed, in order
    progressLines,  \* number of progress lines printed
    ppc,            \* "idle" | "submit" | "collect" | "returned" | "raised"
    \* ---- daily update run (update_*_json.main) --------------------------
    disk,           \* the Catalog Document on disk: list of series
    catalog,        \* existing_data['data'] of the running process (<<>>
                    \* while no process runs)
    tickers,        \* all_tickers of the running process
    existing_tickers, \* tickers whose mcv_id is in the catalog
    new_tickers,    \* tickers whose mcv_id is not
    pos,            \* position of the running loop in its list
    computedOn,     \* the history the last iteration computed indicators on
    upc,            \* "off" | "idle" | "existing" | "new" | "markets" |
                    \* "saving" | "torn"
    \* ---- utils_common.calculate_and_update_indicators -------------------
    series,         \* the list history handed to the function
    indicators,     \* how the last call on series ended and what it returned
    \* ---- one ticker-file entry after the other (rebuild / retry / update) -
    script,         \* the script that runs
    entries,        \* the entries of the ticker files, in file order
    loaded,         \* what load_local_tickers returned
    epos,           \* position of the loop in loaded
    requested,      \* positions of entries a vendor request was sent for
    failed,         \* the failure counter of the run
    added,          \* positions of entries a series was stored for
    epc,            \* "off" | "load" | "loop" | "done"
    \* ---- the console (sys.stdout) during parallel_process ----------------
    inPrint,        \* the threads inside a call of print (0: the caller)
    \* ---- rebuild_upbit_history.fetch_candles ----------------------------
    vendor_first,   \* day of the oldest candle the vendor holds
    start_date,     \* argument
    end_date,       \* argument
    all_candles,    \* the list all_candles (days, in the order received)
    current_end,    \* the local current_end
    iteration,      \* loop variable
    retry_count,    \* the local retry_count
    requests,       \* number of requests sent to the vendor
    raised,         \* number of those requests that raised
    filtered,       \* the list returned
    fpc             \* "off" | "loop" | "returned"

upsertVars == <<history, prevHistory, newRecord, fromEmpty>>
retryVars  == <<max_retries, base_delay, attempt, calls, failures, sleeps,
                notices, rpc, outcome>>
parVars    == <<nItems, max_workers, submitted, queue, worker, fstate, invoked,
                collected, completed, results, failNotices, progressLines, ppc>>
updVars    == <<disk, catalog, tickers, existing_tickers, new_tickers, pos,
                computedOn, upc>>
indVars    == <<series, indicators>>
entryVars  == <<script, entries, loaded, epos, requested, failed, added, epc>>
consoleVars == <<inPrint>>
fetchVars  == <<vendor_first, start_date, end_date, all_candles, current_end,
                iteration, retry_count, requests, raised, filtered, fpc>>
vars == <<upsertVars, retryVars, parVars, updVars, indVars, entryVars,
          consoleVars, fetchVars>>

(***************************************************************************)
(* Bounds of the model.                                                    *)
(***************************************************************************)
MaxDate == 3          \* calendar dates are 1..MaxDate
MaxLen == 2           \* longest history handed to the first upsert
MaxRetriesBound == 5  \* max_retries ranges over 0..MaxRetriesBound
MaxBaseDelay == 3     \* base_delay ranges over 1..MaxBaseDelay
MaxItems == 4         \* len(items) ranges over 0..MaxItems
MaxWorkers == 2       \* max_workers ranges over 1..MaxWorkers
MaxResp == 2          \* most candles in one vendor response
MaxSeries == 16       \* longest history handed to the indicator function
MaxEntries == 2
MaxDay == 1400
MaxVolSeries == 4     \* longest history of candles with volumes

\* def retry_on_failure(max_retries: int = 4, base_delay: float = 1.0)
DefaultMaxRetries == 4
DefaultBaseDelay == 1

Dates == 1..MaxDate
Closes == {10, 20}
Candle == [date : Dates, close : Closes]
NoRecord == [date |-> 0, close |-> 0]

RECURSIVE SeqsUpTo(_, _)
SeqsUpTo(S, n) ==
    IF n = 0 THEN {<<>>}
    ELSE LET shorter == SeqsUpTo(S, n - 1)
         IN  shorter \cup {Append(s, x) : s \in {t \in shorter : Len(t) = n - 1}, x \in S}

RECURSIVE Pow2(_)
Pow2(n) == IF n = 0 THEN 1 ELSE 2 * Pow2(n - 1)

(***************************************************************************)
(* utils_common.upsert_history                                             *)
(***************************************************************************)
\* faulty variant: the scan starts at the second record
FirstIndexSkipFirst(H, d) ==
    IF \E i \in 2..Len(H) : H[i].date = d
    THEN CHOOSE i \in 2..Len(H) :
            /\ H[i].date = d
            /\ \A j \in 2..(i - 1) : H[j].date # d
    ELSE 0

\* Index of the first record whose date is d, 0 when there is none
\* (the for/enumerate loop returns at the first match).
FirstIndex(H, d) ==
    IF \E i \in 1..Len(H) : H[i].date = d
    THEN CHOOSE i \in 1..Len(H) :
            /\ H[i].date = d
            /\ \A j \in 1..(i - 1) : H[j].date # d
    ELSE 0

\* faulty variant: the date comparison is dropped, every record is appended
upsert_history_append(H, c) == Append(H, c)

\* faulty variant: on a match the old record is removed and the new one goes last
upsert_history_move(H, c) ==
    LET i == FirstIndex(H, c.date)
    IN  IF i # 0
        THEN Append(SubSeq(H, 1, i - 1) \o SubSeq(H, i + 1, Len(H)), c)
        ELSE Append(H, c)

upsert_history(H, c) ==
    LET i == FirstIndex(H, c.date)
    IN  IF i # 0 THEN [H EXCEPT ![i] = c] ELSE Append(H, c)

InitUpsertVars ==
    /\ history \in SeqsUpTo(Candle, MaxLen)
    /\ prevHistory = history
    /\ newRecord = NoRecord
    /\ fromEmpty = (history = <<>>)

IdleUpsert ==
    /\ history = <<>>
    /\ prevHistory = <<>>
    /\ newRecord = NoRecord
    /\ fromEmpty = TRUE

Upsert(c) ==
    /\ history' = upsert_history(history, c)
    /\ prevHistory' = history
    /\ newRecord' = c
    /\ UNCHANGED fromEmpty
    /\ UNCHANGED <<retryVars, parVars, updVars, indVars, entryVars, consoleVars,
                 fetchVars>>

(***************************************************************************)
(* utils_common.retry_on_failure                                           *)
(*                                                                         *)
(* The wrapped function is any function: each call either returns a value  *)
(* or raises.  The exception raised by the n-th call is identified by n,   *)
(* a returned value by the number of the call that returned it.            *)
(***************************************************************************)
InitRetryVars ==
    /\ max_retries \in 0..MaxRetriesBound
    /\ base_delay \in 1..MaxBaseDelay
    /\ attempt = 0
    /\ calls = 0
    /\ failures = 0
    /\ sleeps = <<>>
    /\ notices = 0
    /\ rpc = "loop"
    /\ outcome = 0

IdleRetry ==
    /\ max_retries = 0
    /\ base_delay = 1
    /\ attempt = 0
    /\ calls = 0
    /\ failures = 0
    /\ sleeps = <<>>
    /\ notices = 0
    /\ rpc = "idle"
    /\ outcome = 0

\* faulty variant: the delay grows linearly instead of doubling
BackoffDelayLinear(a) == base_delay * (a + 1)

\* delay = base_delay * (2 ** attempt)
BackoffDelay(a) == base_delay * Pow2(a)

\* faulty variant: the last attempt is recognised one iteration late
IsLastAttemptLate(a) == a = max_retries

\* if attempt == max_retries - 1
IsLastAttempt(a) == a = max_retries - 1

\* try: return func(*args, **kwargs)        -- func returns
CallReturns ==
    /\ rpc = "loop"
    /\ attempt < max_retries
    /\ calls' = calls + 1
    /\ outcome' = calls + 1
    /\ rpc' = "returned"
    /\ UNCHANGED <<max_retries, base_delay, attempt, failures, sleeps, notices>>
    /\ UNCHANGED <<upsertVars, parVars, updVars, indVars, entryVars, consoleVars,
                 fetchVars>>

\* func raises on the last attempt: raise
CallRaisesLast ==
    /\ rpc = "loop"
    /\ attempt < max_retries
    /\ IsLastAttempt(attempt)
    /\ calls' = calls + 1
    /\ failures' = failures + 1
    /\ outcome' = calls + 1
    /\ rpc' = "raised"
    /\ UNCHANGED <<max_retries, base_delay, attempt, sleeps, notices>>
    /\ UNCHANGED <<upsertVars, parVars, updVars, indVars, entryVars, consoleVars,
                 fetchVars>>

\* func raises on an earlier attempt: print the notice, sleep, next attempt
CallRaisesRetry ==
    /\ rpc = "loop"
    /\ attempt < max_retries
    /\ ~IsLastAttempt(attempt)
    /\ calls' = calls + 1
    /\ failures' = failures + 1
    /\ notices' = notices + 1
    /\ sleeps' = Append(sleeps, BackoffDelay(attempt))
    /\ attempt' = attempt + 1
    /\ UNCHANGED <<max_retries, base_delay, rpc, outcome>>
    /\ UNCHANGED <<upsertVars, parVars, updVars, indVars, entryVars, consoleVars,
                 fetchVars>>

\* the for loop ends without a call having returned or raised: return None
LoopExhausted ==
    /\ rpc = "loop"
    /\ attempt >= max_retries
    /\ rpc' = "returned"
    /\ outcome' = 0
    /\ UNCHANGED <<max_retries, base_delay, attempt, calls, failures, sleeps, notices>>
    /\ UNCHANGED <<upsertVars, parVars, updVars, indVars, entryVars, consoleVars,
                 fetchVars>>

(***************************************************************************)
(* utils_common.parallel_process                                           *)
(*                                                                         *)
(* The coordinating thread submits every item, then consumes as_completed. *)
(* The pool's threads take items from the work queue in FIFO order.  func  *)
(* is any function: on an item it returns a value, returns None or raises. *)
(***************************************************************************)
Items == 1..nItems
Workers == 1..max_workers
DoneStates == {"value", "none", "raised"}

InitParVars ==
    /\ nItems \in 0..MaxItems
    /\ max_workers \in 1..MaxWorkers
    /\ submitted = 0
    /\ queue = <<>>
    /\ worker = [w \in Workers |-> 0]
    /\ fstate = [i \in Items |-> "new"]
    /\ invoked = [i \in Items |-> 0]
    /\ collected = {}
    /\ completed = 0
    /\ results = <<>>
    /\ failNotices = <<>>
    /\ progressLines = 0
    /\ ppc = "submit"

IdlePar ==
    /\ nItems = 0
    /\ max_workers = 1
    /\ submitted = 0
    /\ queue = <<>>
    /\ worker = [w \in 1..1 |-> 0]
    /\ fstate = [i \in 1..0 |-> "new"]
    /\ invoked = [i \in 1..0 |-> 0]
    /\ collected = {}
    /\ completed = 0
    /\ results = <<>>
    /\ failNotices = <<>>
    /\ progressLines = 0
    /\ ppc = "idle"

\* executor.submit(func, item) for the next item of the list; after the last
\* one the coordinating thread enters the as_completed loop
Submit ==
    /\ ppc = "submit"
    /\ submitted < nItems
    /\ submitted' = submitted + 1
    /\ queue' = Append(queue, submitted + 1)
    /\ fstate' = [fstate EXCEPT ![submitted + 1] = "pending"]
    /\ UNCHANGED <<nItems, max_workers, worker, invoked, collected, completed,
                   results, failNotices, progressLines, ppc>>
    /\ UNCHANGED <<upsertVars, retryVars, updVars, indVars, entryVars, consoleVars,
                 fetchVars>>

AllSubmitted ==
    /\ ppc = "submit"
    /\ submitted = nItems
    /\ ppc' = "collect"
    /\ UNCHANGED <<nItems, max_workers, submitted, queue, worker, fstate, invoked,
                   collected, completed, results, failNotices, progressLines>>
    /\ UNCHANGED <<upsertVars, retryVars, updVars, indVars, entryVars, consoleVars,
                 fetchVars>>

\* faulty variant: a thread takes the next work item without having finished its own
WorkerStartsBusy(w) ==
    /\ queue # <<>>
    /\ worker' = [worker EXCEPT ![w] = Head(queue)]
    /\ queue' = Tail(queue)
    /\ fstate' = [fstate EXCEPT ![Head(queue)] = "running"]
    /\ invoked' = [invoked EXCEPT ![Head(queue)] = @ + 1]
    /\ UNCHANGED <<nItems, max_workers, submitted, collected, completed, results,
                   failNotices, progressLines, ppc>>
    /\ UNCHANGED <<upsertVars, retryVars, updVars, indVars, entryVars, consoleVars,
                 fetchVars>>

\* an idle pool thread takes the head of the work queue and calls func on it
WorkerStarts(w) ==
    /\ worker[w] = 0
    /\ queue # <<>>
    /\ worker' = [worker EXCEPT ![w] = Head(queue)]
    /\ queue' = Tail(queue)
    /\ fstate' = [fstate EXCEPT ![Head(queue)] = "running"]
    /\ invoked' = [invoked EXCEPT ![Head(queue)] = @ + 1]
    /\ UNCHANGED <<nItems, max_workers, submitted, collected, completed, results,
                   failNotices, progressLines, ppc>>
    /\ UNCHANGED <<upsertVars, retryVars, updVars, indVars, entryVars, consoleVars,
                 fetchVars>>

\* faulty variant: the pool thread appends its value to the shared list itself
WorkerFinishesAppends(w, o) ==
    /\ worker[w] # 0
    /\ fstate' = [fstate EXCEPT ![worker[w]] = o]
    /\ worker' = [worker EXCEPT ![w] = 0]
    /\ results' = IF o = "value" THEN Append(results, worker[w]) ELSE results
    /\ UNCHANGED <<nItems, max_workers, submitted, queue, invoked, collected,
                   completed, failNotices, progressLines, ppc>>
    /\ UNCHANGED <<upsertVars, retryVars, updVars, indVars, entryVars, consoleVars,
                 fetchVars>>

\* func ends on the thread's item (value, None or exception): the future is
\* set and the thread is free again
WorkerFinishes(w, o) ==
    /\ worker[w] # 0
    /\ fstate' = [fstate EXCEPT ![worker[w]] = o]
    /\ worker' = [worker EXCEPT ![w] = 0]
    /\ UNCHANGED <<nItems, max_workers, submitted, queue, invoked, collected,
                   completed, results, failNotices, progressLines, ppc>>
    /\ UNCHANGED <<upsertVars, retryVars, updVars, indVars, entryVars, consoleVars,
                 fetchVars>>

\* if completed % max(1, total // 10) == 0 or completed == total
PrintsProgress(c, total) ==
    LET step == IF total \div 10 > 1 THEN total \div 10 ELSE 1
    IN  c % step = 0 \/ c = total

\* faulty variant: the except clause is missing, the exception of future.result()
\* leaves the loop and the function
CollectUncaught(i) ==
    /\ ppc = "collect"
    /\ i \notin collected
    /\ fstate[i] \in DoneStates
    /\ collected' = collected \cup {i}
    /\ completed' = completed + 1
    /\ progressLines' = progressLines + (IF PrintsProgress(completed + 1, nItems) THEN 1 ELSE 0)
    /\ results' = IF fstate[i] = "value" THEN Append(results, i) ELSE results
    /\ ppc' = IF fstate[i] = "raised" THEN "raised" ELSE ppc
    /\ UNCHANGED <<nItems, max_workers, submitted, queue, worker, fstate, invoked,
                   failNotices>>
    /\ UNCHANGED <<upsertVars, retryVars, updVars, indVars, entryVars, consoleVars,
                 fetchVars>>

\* faulty variant: the test "result is not None" is missing, every result that
\* was returned is appended
CollectKeepsNone(i) ==
    /\ ppc = "collect"
    /\ i \notin collected
    /\ fstate[i] \in DoneStates
    /\ collected' = collected \cup {i}
    /\ completed' = completed + 1
    /\ progressLines' = progressLines + (IF PrintsProgress(completed + 1, nItems) THEN 1 ELSE 0)
    /\ results' = IF fstate[i] # "raised" THEN Append(results, i) ELSE results
    /\ failNotices' = IF fstate[i] = "raised" THEN Append(failNotices, i) ELSE failNotices
    /\ UNCHANGED <<nItems, max_workers, submitted, queue, worker, fstate, invoked, ppc>>
    /\ UNCHANGED <<upsertVars, retryVars, updVars, indVars, entryVars, consoleVars,
                 fetchVars>>

\* one iteration of "for future in as_completed(future_to_item)": a future
\* that is done and was not yielded yet; the whole loop body
Collect(i) ==
    /\ ppc = "collect"
    /\ i \notin collected
    /\ fstate[i] \in DoneStates
    /\ collected' = collected \cup {i}
    /\ completed' = completed + 1
    /\ progressLines' = progressLines + (IF PrintsProgress(completed + 1, nItems) THEN 1 ELSE 0)
    /\ results' = IF fstate[i] = "value" THEN Append(results, i) ELSE results
    /\ failNotices' = IF fstate[i] = "raised" THEN Append(failNotices, i) ELSE failNotices
    /\ UNCHANGED <<nItems, max_workers, submitted, queue, worker, fstate, invoked, ppc>>
    /\ UNCHANGED <<upsertVars, retryVars, updVars, indVars, entryVars, consoleVars,
                 fetchVars>>

\* as_completed is exhausted, the with block shuts the pool down (waiting
\* for its threads) and the function returns results
ParReturns ==
    /\ ppc = "collect"
    /\ collected = Items
    /\ \A w \in Workers : worker[w] = 0
    /\ ppc' = "returned"
    /\ UNCHANGED <<nItems, max_workers, submitted, queue, worker, fstate, invoked,
                   collected, completed, results, failNotices, progressLines>>
    /\ UNCHANGED <<upsertVars, retryVars, updVars, indVars, entryVars, consoleVars,
                 fetchVars>>

(***************************************************************************)
(* Indicators: calculate_rsi                                               *)
(*                                                                         *)
(* Prices are integers.  The running averages are kept as exact fractions: *)
(* after the step at 0-based index i >= period the average is              *)
(* WilderNum / period^(i - period + 1).  The result is in hundredths       *)
(* (round(x, 2) * 100); None is Null.                                      *)
(***************************************************************************)
Null == -1
RSI_PERIOD == 14

RECURSIVE PowOf(_, _)
PowOf(b, n) == IF n = 0 THEN 1 ELSE b * PowOf(b, n - 1)

\* gains.append(max(change, 0)) / losses.append(abs(min(change, 0))) for the
\* change into the price at 0-based index i
GainAt(prices, i) ==
    LET change == prices[i + 1] - prices[i] IN IF change > 0 THEN change ELSE 0
\* faulty variant: abs() is missing, a loss is recorded with its sign
LossAtSigned(prices, i) ==
    LET change == prices[i + 1] - prices[i] IN IF change < 0 THEN change ELSE 0
LossAt(prices, i) ==
    LET change == prices[i + 1] - prices[i] IN IF change < 0 THEN -change ELSE 0

RECURSIVE SumGains(_, _)
SumGains(prices, i) ==
    IF i = 0 THEN 0 ELSE SumGains(prices, i - 1) + GainAt(prices, i)
RECURSIVE SumLosses(_, _)
SumLosses(prices, i) ==
    IF i = 0 THEN 0 ELSE SumLosses(prices, i - 1) + LossAt(prices, i)

\* numerators of avg_gain / avg_loss after the step at 0-based index i
RECURSIVE WilderGain(_, _)
WilderGain(prices, i) ==
    IF i = RSI_PERIOD THEN SumGains(prices, RSI_PERIOD)
    ELSE WilderGain(prices, i - 1) * (RSI_PERIOD - 1)
         + GainAt(prices, i) * PowOf(RSI_PERIOD, i - RSI_PERIOD)
RECURSIVE WilderLoss(_, _)
WilderLoss(prices, i) ==
    IF i = RSI_PERIOD THEN SumLosses(prices, RSI_PERIOD)
    ELSE WilderLoss(prices, i - 1) * (RSI_PERIOD - 1)
         + LossAt(prices, i) * PowOf(RSI_PERIOD, i - RSI_PERIOD)

\* round(100 * n / d, 2) in hundredths, ties to even
RoundPercent(n, d) ==
    LET a  == (100 * n) \div d
        r  == (100 * n) % d
        b  == (100 * r) \div d
        r2 == (100 * r) % d
        fl == 100 * a + b
    IN  IF 2 * r2 > d \/ (2 * r2 = d /\ fl % 2 = 1) THEN fl + 1 ELSE fl

\* faulty variant: the test of avg_loss is missing, rs = avg_gain / avg_loss
\* raises ZeroDivisionError
ZeroDivision == -2
calculate_rsi_unguarded(prices) ==
    IF Len(prices) < RSI_PERIOD + 1 THEN Null
    ELSE LET g == WilderGain(prices, Len(prices) - 1)
             l == WilderLoss(prices, Len(prices) - 1)
         IN  IF l = 0 THEN ZeroDivision
             ELSE RoundPercent(g, g + l)

calculate_rsi(prices) ==
    IF Len(prices) < RSI_PERIOD + 1 THEN Null
    ELSE LET g == WilderGain(prices, Len(prices) - 1)
             l == WilderLoss(prices, Len(prices) - 1)
         IN  IF l = 0 THEN 10000
             ELSE RoundPercent(g, g + l)      \* 100 - 100/(1 + g/l)

(***************************************************************************)
(* The daily update run: main of update_us_json.py, and with other vendor  *)
(* calls update_kr_stocks_json.py, update_coingecko_json.py and            *)
(* update_cryptocompare_json.py.                                           *)
(*                                                                         *)
(* A candle is [date, close, rsi]; rsi stands for the derived fields, all  *)
(* written together on one record.  A vendor response is any sequence of   *)
(* up to MaxResp candles dated around the end of the stored histories.     *)
(***************************************************************************)
\* "B" and "A" are in the Catalog Document, "N" is not; "B" is in no ticker
\* list any more (an instrument dropped from the listing)
CatalogIds == <<"B", "A">>
TickerLists == {<<"N", "A">>, <<"N">>}
MIN_CLOSES == 14
WINDOW == 250
MAX_NEW_TICKERS == 5
StoredLens == {14}
RespDates == {14, 15, 16}
RespCloses == {11}
RespCandle == [date : RespDates, close : RespCloses, rsi : {Null}]
Responses == SeqsUpTo(RespCandle, MaxResp)
\* the instruments whose entry in the ticker files has an mcv_id but no
\* 'ticker' field
NoSymbol == {"X", "B"}

LastN(q, n) == IF Len(q) <= n THEN q ELSE SubSeq(q, Len(q) - n + 1, Len(q))
FirstN(q, n) == IF Len(q) <= n THEN q ELSE SubSeq(q, 1, n)
HasId(data, id) == \E k \in 1..Len(data) : data[k].mcv_id = id
\* existing_map[mcv_id]: the dict keeps the last item with a given key
IndexOfId(data, id) ==
    CHOOSE k \in 1..Len(data) :
        /\ data[k].mcv_id = id
        /\ \A l \in (k + 1)..Len(data) : data[l].mcv_id # id

ClosesOf(hist) ==
    LET recent == LastN(hist, WINDOW)
        notNone == SelectSeq(recent, LAMBDA h : h.close # Null)
    IN  [k \in 1..Len(notNone) |-> notNone[k].close]

\* TRUE when calculate_and_update_indicators gets past its two early returns
ComputesIndicators(hist) == Len(hist) # 0 /\ Len(ClosesOf(hist)) >= MIN_CLOSES

\* faulty variant: the derived fields are written on every record
calculate_and_update_indicators_all(hist) ==
    IF ~ComputesIndicators(hist) THEN hist
    ELSE [k \in 1..Len(hist) |->
             [hist[k] EXCEPT !.rsi = calculate_rsi(ClosesOf(hist))]]

\* calculate_and_update_indicators(history): writes on history[-1]
calculate_and_update_indicators(hist) ==
    IF ~ComputesIndicators(hist) THEN hist
    ELSE [hist EXCEPT ![Len(hist)].rsi = calculate_rsi(ClosesOf(hist))]

\* existing_dates = {h['date'] for h in history}
\* for candle in candles: if candle['date'] not in existing_dates: append
MergeCandles(hist, candles) ==
    LET existing_dates == {hist[k].date : k \in 1..Len(hist)}
    IN  hist \o SelectSeq(candles, LAMBDA c : c.date \notin existing_dates)

\* a series as a rebuild leaves it: n daily candles in date order, the
\* indicators on the last one
StoredClose(d) == IF d % 3 = 0 THEN 11 ELSE 10
StoredHistory(n) ==
    calculate_and_update_indicators(
        [d \in 1..n |-> [date |-> d, close |-> StoredClose(d), rsi |-> Null]])

InitUpdVars ==
    /\ disk \in {[k \in 1..Len(CatalogIds) |->
                    [mcv_id |-> CatalogIds[k], history |-> StoredHistory(f[k])]] :
                 f \in [1..Len(CatalogIds) -> StoredLens]}
    /\ catalog = <<>>
    /\ tickers = <<>>
    /\ existing_tickers = <<>>
    /\ new_tickers = <<>>
    /\ pos = 0
    /\ computedOn = <<>>
    /\ upc = "idle"

IdleUpd ==
    /\ disk = <<>>
    /\ catalog = <<>>
    /\ tickers = <<>>
    /\ existing_tickers = <<>>
    /\ new_tickers = <<>>
    /\ pos = 0
    /\ computedOn = <<>>
    /\ upc = "off"

\* load_local_tickers(), load_existing_data(), the new/existing split
StartRun(tl) ==
    /\ upc = "idle"
    /\ tickers' = tl
    /\ catalog' = disk
    /\ existing_tickers' = SelectSeq(tl, LAMBDA t : HasId(disk, t))
    /\ new_tickers' = SelectSeq(tl, LAMBDA t : ~HasId(disk, t))
    /\ pos' = 1
    /\ computedOn' = <<>>
    /\ upc' = "existing"
    /\ UNCHANGED disk
    /\ UNCHANGED <<upsertVars, retryVars, parVars, indVars, entryVars, consoleVars,
                 fetchVars>>

\* faulty variant: the skip of an empty answer is missing and the stored history
\* is rebuilt from the answer alone
UpdateExistingRebuilds(candles) ==
    /\ upc = "existing"
    /\ pos <= Len(existing_tickers)
    /\ LET k == IndexOfId(catalog, existing_tickers[pos])
       IN  /\ catalog' = [catalog EXCEPT ![k].history =
                              calculate_and_update_indicators(candles)]
           /\ computedOn' = IF ComputesIndicators(candles) THEN candles ELSE <<>>
    /\ pos' = pos + 1
    /\ UNCHANGED <<disk, tickers, existing_tickers, new_tickers, upc>>
    /\ UNCHANGED <<upsertVars, retryVars, parVars, indVars, entryVars, consoleVars,
                 fetchVars>>

\* one iteration of "for t in existing_tickers" with the vendor answering
\* candles (an empty answer also stands for a failed fetch)
UpdateExisting(candles) ==
    /\ upc = "existing"
    /\ pos <= Len(existing_tickers)
    /\ existing_tickers[pos] \notin NoSymbol
    /\ LET k == IndexOfId(catalog, existing_tickers[pos])
           merged == MergeCandles(catalog[k].history, candles)
       IN  IF Len(candles) = 0
           THEN UNCHANGED catalog /\ computedOn' = <<>>
           ELSE /\ catalog' = [catalog EXCEPT ![k].history =
                                   calculate_and_update_indicators(merged)]
                /\ computedOn' = IF ComputesIndicators(merged) THEN merged ELSE <<>>
    /\ pos' = pos + 1
    /\ UNCHANGED <<disk, tickers, existing_tickers, new_tickers, upc>>
    /\ UNCHANGED <<upsertVars, retryVars, parVars, indVars, entryVars, consoleVars,
                 fetchVars>>

\* ticker = t['ticker'] stands before the try of the loop body: for an entry
\* without the field KeyError leaves main, the process ends with a traceback
\* and save_json_data is never reached
UpdateExistingKeyError ==
    /\ upc = "existing"
    /\ pos <= Len(existing_tickers)
    /\ existing_tickers[pos] \in NoSymbol
    /\ upc' = "idle"
    /\ catalog' = <<>>
    /\ tickers' = <<>>
    /\ existing_tickers' = <<>>
    /\ new_tickers' = <<>>
    /\ pos' = 0
    /\ computedOn' = <<>>
    /\ UNCHANGED disk
    /\ UNCHANGED <<upsertVars, retryVars, parVars, indVars, entryVars, consoleVars,
                 fetchVars>>

\* the loop over existing_tickers is over
ExistingDone ==
    /\ upc = "existing"
    /\ pos > Len(existing_tickers)
    /\ upc' = "new"
    /\ pos' = 1
    /\ computedOn' = <<>>
    /\ UNCHANGED <<disk, catalog, tickers, existing_tickers, new_tickers>>
    /\ UNCHANGED <<upsertVars, retryVars, parVars, indVars, entryVars, consoleVars,
                 fetchVars>>

\* faulty variant: the cap is missing, every new ticker is processed
ProcessNewListAll == new_tickers

\* process_new = new_tickers[:MAX_NEW_TICKERS]
ProcessNewList == FirstN(new_tickers, MAX_NEW_TICKERS)

\* one iteration of "for t in process_new" with the vendor answering candles
\* to the full-history fetch
ProcessNew(candles) ==
    /\ upc = "new"
    /\ pos <= Len(ProcessNewList)
    /\ ProcessNewList[pos] \notin NoSymbol
    /\ IF Len(candles) = 0
       THEN UNCHANGED catalog /\ computedOn' = <<>>
       ELSE /\ catalog' = Append(catalog,
                              [mcv_id |-> ProcessNewList[pos],
                               history |-> calculate_and_update_indicators(candles)])
            /\ computedOn' = IF ComputesIndicators(candles) THEN candles ELSE <<>>
    /\ pos' = pos + 1
    /\ UNCHANGED <<disk, tickers, existing_tickers, new_tickers, upc>>
    /\ UNCHANGED <<upsertVars, retryVars, parVars, indVars, entryVars, consoleVars,
                 fetchVars>>

\* the same statement at the head of the body of "for t in process_new"
ProcessNewKeyError ==
    /\ upc = "new"
    /\ pos <= Len(ProcessNewList)
    /\ ProcessNewList[pos] \in NoSymbol
    /\ upc' = "idle"
    /\ catalog' = <<>>
    /\ tickers' = <<>>
    /\ existing_tickers' = <<>>
    /\ new_tickers' = <<>>
    /\ pos' = 0
    /\ computedOn' = <<>>
    /\ UNCHANGED disk
    /\ UNCHANGED <<upsertVars, retryVars, parVars, indVars, entryVars, consoleVars,
                 fetchVars>>

\* faulty variant: only the series of the instruments in the ticker list are
\* written
SaveRunListedOnly ==
    /\ upc = "new"
    /\ pos > Len(ProcessNewList)
    /\ disk' = SelectSeq(catalog, LAMBDA s : \E i \in 1..Len(tickers) : tickers[i] = s.mcv_id)
    /\ upc' = "idle"
    /\ catalog' = <<>>
    /\ tickers' = <<>>
    /\ existing_tickers' = <<>>
    /\ new_tickers' = <<>>
    /\ pos' = 0
    /\ computedOn' = <<>>
    /\ UNCHANGED <<upsertVars, retryVars, parVars, indVars, entryVars, consoleVars,
                 fetchVars>>

\* metadata update and save_json_data(existing_data); the process ends
SaveRun ==
    /\ upc = "new"
    /\ pos > Len(ProcessNewList)
    /\ disk' = catalog
    /\ upc' = "idle"
    /\ catalog' = <<>>
    /\ tickers' = <<>>
    /\ existing_tickers' = <<>>
    /\ new_tickers' = <<>>
    /\ pos' = 0
    /\ computedOn' = <<>>
    /\ UNCHANGED <<upsertVars, retryVars, parVars, indVars, entryVars, consoleVars,
                 fetchVars>>

\* save_json_data step by step.  open(JSON_FILE_PATH, 'w') truncates the file
\* that holds the previous document.
SaveOpens ==
    /\ upc = "new"
    /\ pos > Len(ProcessNewList)
    /\ disk' = <<>>
    /\ pos' = 0
    /\ upc' = "saving"
    /\ UNCHANGED <<catalog, tickers, existing_tickers, new_tickers, computedOn>>
    /\ UNCHANGED <<upsertVars, retryVars, parVars, indVars, entryVars, consoleVars,
                 fetchVars>>

\* json.dump(data, f, ...) writes the document to f piece by piece; pos counts
\* the series written so far
SaveWrites ==
    /\ upc = "saving"
    /\ pos < Len(catalog)
    /\ disk' = Append(disk, catalog[pos + 1])
    /\ pos' = pos + 1
    /\ UNCHANGED <<catalog, tickers, existing_tickers, new_tickers, computedOn, upc>>
    /\ UNCHANGED <<upsertVars, retryVars, parVars, indVars, entryVars, consoleVars,
                 fetchVars>>

\* the end of the document is written and the with block closes the file; the
\* process ends
SaveCloses ==
    /\ upc = "saving"
    /\ pos = Len(catalog)
    /\ upc' = "idle"
    /\ catalog' = <<>>
    /\ tickers' = <<>>
    /\ existing_tickers' = <<>>
    /\ new_tickers' = <<>>
    /\ pos' = 0
    /\ computedOn' = <<>>
    /\ UNCHANGED disk
    /\ UNCHANGED <<upsertVars, retryVars, parVars, indVars, entryVars, consoleVars,
                 fetchVars>>

\* the process is killed; a file that was open for writing stays as far as it
\* was written, without the end of the document ("torn": json.load of the next
\* run raises)
Kill ==
    /\ upc \in {"existing", "new", "saving"}
    /\ upc' = IF upc = "saving" THEN "torn" ELSE "idle"
    /\ catalog' = <<>>
    /\ tickers' = <<>>
    /\ existing_tickers' = <<>>
    /\ new_tickers' = <<>>
    /\ pos' = 0
    /\ computedOn' = <<>>
    /\ UNCHANGED disk
    /\ UNCHANGED <<upsertVars, retryVars, parVars, indVars, entryVars, consoleVars,
                 fetchVars>>

(***************************************************************************)
(* The daily update run of update_upbit_json.py.                           *)
(*                                                                         *)
(* ticker_map is the catalog (a dict keeps insertion order), the markets   *)
(* of the vendor's listing are named by their mcv_id.  The vendor holds    *)
(* one day candle per date for a market; fetch_yesterday_candle answers    *)
(* the latest of them or raises.                                           *)
(***************************************************************************)
\* the answer of fetch_yesterday_candle: the date of the candle, or the
\* request raising
NoAnswer == 0
UpbitAnswers == RespDates \cup {NoAnswer}

\* rebuild_upbit_history.fetch_candles: every day candle the vendor holds for
\* a market whose latest candle is of date d, in date order
fetch_candles(d) ==
    [i \in 1..d |-> [date |-> i, close |-> StoredClose(i), rsi |-> Null]]

\* fetch_yesterday_candle (count = 1) and the dict new_record built from it
fetch_yesterday_candle(d) == fetch_candles(d)[d]

\* the indicator block of the existing-ticker branch: no length guard, the
\* closes of history[-250:] unfiltered, the result stored as history[-1]
UpbitIndicators(hist) ==
    LET recent == LastN(hist, WINDOW)
        closes == [k \in 1..Len(recent) |-> recent[k].close]
    IN  [hist EXCEPT ![Len(hist)].rsi = calculate_rsi(closes)]

\* load_json_data(), ticker_map, get_krw_markets()
UpbitStart(markets) ==
    /\ upc = "idle"
    /\ tickers' = markets
    /\ catalog' = disk
    /\ new_tickers' = <<>>
    /\ pos' = 1
    /\ upc' = "markets"
    /\ UNCHANGED <<disk, existing_tickers, computedOn>>
    /\ UNCHANGED <<upsertVars, retryVars, parVars, indVars, entryVars, consoleVars,
                 fetchVars>>

\* one iteration of "for m in markets" with the vendor answering d
UpbitMarket(d) ==
    /\ upc = "markets"
    /\ pos <= Len(tickers)
    /\ LET mcv_id == tickers[pos]
       IN  IF d = NoAnswer
           THEN UNCHANGED <<catalog, new_tickers>>
           ELSE LET new_record == fetch_yesterday_candle(d)
                IN  IF HasId(catalog, mcv_id)
                    THEN LET k == IndexOfId(catalog, mcv_id)
                             hist == catalog[k].history
                         IN  /\ catalog' =
                                    IF \E i \in 1..Len(hist) : hist[i].date = d
                                    THEN catalog
                                    ELSE [catalog EXCEPT ![k].history =
                                             UpbitIndicators(Append(hist, new_record))]
                             /\ UNCHANGED new_tickers
                    ELSE /\ catalog' = Append(catalog,
                                           [mcv_id |-> mcv_id,
                                            history |-> <<new_record>>])
                         /\ new_tickers' = Append(new_tickers, mcv_id)
    /\ pos' = pos + 1
    /\ UNCHANGED <<disk, tickers, existing_tickers, computedOn, upc>>
    /\ UNCHANGED <<upsertVars, retryVars, parVars, indVars, entryVars, consoleVars,
                 fetchVars>>

\* json_data['data'] = list(ticker_map.values()); save_json_data(json_data)
UpbitSave ==
    /\ upc = "markets"
    /\ pos > Len(tickers)
    /\ disk' = catalog
    /\ upc' = "idle"
    /\ catalog' = <<>>
    /\ tickers' = <<>>
    /\ new_tickers' = <<>>
    /\ pos' = 0
    /\ UNCHANGED <<existing_tickers, computedOn>>
    /\ UNCHANGED <<upsertVars, retryVars, parVars, indVars, entryVars, consoleVars,
                 fetchVars>>

(***************************************************************************)
(* utils_common.calculate_and_update_indicators                            *)
(*                                                                         *)
(* The function returns the dict of indicators of a history and writes     *)
(* nothing.  The value of an EMA deviation is float arithmetic and is not  *)
(* modelled, only whether the field is None: calculate_ema returns a       *)
(* weighted mean of the prices, which is positive, hence truthy, for the   *)
(* positive prices of this model.                                          *)
(***************************************************************************)
EMA_PERIODS == {20, 50, 120, 200}
SeriesCloses == {10, 11}
NotCalled == [status |-> "none", rsi |-> Null,
              ema_diff_is_none |-> [p \in EMA_PERIODS |-> TRUE],
              volume_ratio_90d |-> Null, volume_ratio_alltime |-> Null]
Raised == [status |-> "raised", rsi |-> Null,
           ema_diff_is_none |-> [p \in EMA_PERIODS |-> TRUE],
           volume_ratio_90d |-> Null, volume_ratio_alltime |-> Null]

\* calculate_ema(prices, period) is None
calculate_ema_is_none(prices, period) == Len(prices) < 1

\* closes = [h[close_key] for h in history[-250:]]
AllCloses(hist) ==
    LET recent == LastN(hist, WINDOW)
    IN  [k \in 1..Len(recent) |-> recent[k].close]

\* h.get(volume_key): None when the candle has no volume
VolumeOf(h) == IF "volume" \in DOMAIN h THEN h.volume ELSE Null

\* volumes = [h[volume_key] for h in recent_data if h.get(volume_key)]: the
\* candles whose volume is None or 0 are left out
Volumes(hist) ==
    LET recent == LastN(hist, WINDOW)
        truthy == SelectSeq(recent, LAMBDA h : VolumeOf(h) # Null /\ VolumeOf(h) # 0)
    IN  [k \in 1..Len(truthy) |-> truthy[k].volume]

MaxOf(q) == CHOOSE x \in {q[k] : k \in 1..Len(q)} : \A k \in 1..Len(q) : q[k] <= x

\* round(n / d, 3) in thousandths, ties to even
RoundRatio(n, d) ==
    LET fl == (1000 * n) \div d
        r  == (1000 * n) % d
    IN  IF 2 * r > d \/ (2 * r = d /\ fl % 2 = 1) THEN fl + 1 ELSE fl

VOLUME_DAYS == 90

\* the block "if volumes:" of calculate_and_update_indicators
VolumeRatios(hist) ==
    LET volumes == Volumes(hist)
    IN  IF Len(volumes) = 0
        THEN [volume_ratio_90d |-> Null, volume_ratio_alltime |-> Null]
        ELSE LET current_volume == volumes[Len(volumes)]
                 vol_max_90d == IF Len(volumes) >= VOLUME_DAYS
                                THEN MaxOf(LastN(volumes, VOLUME_DAYS))
                                ELSE MaxOf(volumes)
                 vol_max_alltime == MaxOf(volumes)
             IN  [volume_ratio_90d |->
                      IF vol_max_90d # 0 THEN RoundRatio(current_volume, vol_max_90d)
                      ELSE Null,
                  volume_ratio_alltime |->
                      IF vol_max_alltime # 0
                      THEN RoundRatio(current_volume, vol_max_alltime)
                      ELSE Null]

\* calculate_and_update_indicators(history) of utils_common: current_price =
\* closes[-1] raises IndexError on an empty list
utils_calculate_and_update_indicators(hist) ==
    LET closes == AllCloses(hist)
    IN  IF Len(closes) = 0 THEN Raised
        ELSE [status |-> "returned",
              rsi |-> calculate_rsi(closes),
              ema_diff_is_none |->
                  [p \in EMA_PERIODS |-> calculate_ema_is_none(closes, p)],
              volume_ratio_90d |-> VolumeRatios(hist).volume_ratio_90d,
              volume_ratio_alltime |-> VolumeRatios(hist).volume_ratio_alltime]

InitIndVars ==
    /\ series = <<>>
    /\ indicators = NotCalled

IdleInd ==
    /\ series = <<>>
    /\ indicators = NotCalled

\* the caller's history grows by one candle
AppendCandle(c) ==
    /\ Len(series) < MaxSeries
    /\ series' = Append(series, [date |-> Len(series) + 1, close |-> c])
    /\ indicators' = NotCalled
    /\ UNCHANGED <<upsertVars, retryVars, parVars, updVars, entryVars, consoleVars,
                 fetchVars>>

\* the caller's history grows by one candle that carries the volume v (None
\* when the vendor gave none)
SeriesVolumes == {Null, 0, 5, 10}
AppendCandleWithVolume(v) ==
    /\ Len(series) < MaxVolSeries
    /\ series' = Append(series, [date |-> Len(series) + 1, close |-> 10, volume |-> v])
    /\ indicators' = NotCalled
    /\ UNCHANGED <<upsertVars, retryVars, parVars, updVars, entryVars, consoleVars,
                 fetchVars>>

\* a call calculate_and_update_indicators(series)
ComputeIndicators ==
    /\ indicators' = utils_calculate_and_update_indicators(series)
    /\ UNCHANGED series
    /\ UNCHANGED <<upsertVars, retryVars, parVars, updVars, entryVars, consoleVars,
                 fetchVars>>

(***************************************************************************)
(* One ticker-file entry after the other: what the rebuild, the retry and  *)
(* the update scripts do with an entry before and after the vendor fetch.  *)
(*                                                                         *)
(* An entry is [symbol, key]: symbol says whether the field the vendor is  *)
(* asked with ('ticker', 'coingecko_id') is there, key whether 'mcv_id'    *)
(* is.  Entries are named by their position in the ticker file.  The       *)
(* entries of an update run are those whose series is in the Catalog.      *)
(***************************************************************************)
Scripts == {"rebuild_us_history", "retry_failed_us", "update_coingecko_json"}
Entry == [symbol : BOOLEAN, key : BOOLEAN]
Answers == {"data", "none"}

\* load_local_tickers: "if mcv_id and mcv_id not in unique_tickers"
load_local_tickers(es) ==
    LET keep == {k \in 1..Len(es) : es[k].key}
        Pick[k \in 0..Len(es)] ==
            IF k = 0 THEN <<>>
            ELSE IF k \in keep THEN Append(Pick[k - 1], k) ELSE Pick[k - 1]
    IN  Pick[Len(es)]

InitEntryVars ==
    /\ script \in Scripts
    /\ entries \in SeqsUpTo(Entry, MaxEntries) \ {<<>>}
    /\ loaded = <<>>
    /\ epos = 0
    /\ requested = {}
    /\ failed = 0
    /\ added = {}
    /\ epc = "load"

IdleEntry ==
    /\ script = "none"
    /\ entries = <<>>
    /\ loaded = <<>>
    /\ epos = 0
    /\ requested = {}
    /\ failed = 0
    /\ added = {}
    /\ epc = "off"

\* tickers = load_local_tickers()
LoadTickers ==
    /\ epc = "load"
    /\ loaded' = load_local_tickers(entries)
    /\ epos' = 1
    /\ epc' = "loop"
    /\ UNCHANGED <<script, entries, requested, failed, added>>
    /\ UNCHANGED <<upsertVars, retryVars, parVars, updVars, indVars, consoleVars,
                 fetchVars>>

\* rebuild_us_history: process_single_ticker on the entry and the branch of
\* main on its result ("if result: ... else: failed += 1")
RebuildEntry(answer) ==
    /\ epc = "loop"
    /\ script = "rebuild_us_history"
    /\ epos <= Len(loaded)
    /\ LET k == loaded[epos]
           t == entries[k]
       IN  IF ~t.symbol \/ ~t.key
           THEN /\ failed' = failed + 1
                /\ UNCHANGED <<requested, added>>
           ELSE /\ requested' = requested \cup {k}
                /\ IF answer = "none"
                   THEN failed' = failed + 1 /\ UNCHANGED added
                   ELSE added' = added \cup {k} /\ UNCHANGED failed
    /\ epos' = epos + 1
    /\ UNCHANGED <<script, entries, loaded, epc>>
    /\ UNCHANGED <<upsertVars, retryVars, parVars, updVars, indVars, consoleVars,
                 fetchVars>>

\* retry_failed_us: one iteration of "for i, t in enumerate(failed_tickers, 1)";
\* the run reports len(failed_tickers) - success as still failed
RetryEntry(answer) ==
    /\ epc = "loop"
    /\ script = "retry_failed_us"
    /\ epos <= Len(loaded)
    /\ LET k == loaded[epos]
           t == entries[k]
       IN  IF ~t.symbol \/ ~t.key
           THEN /\ failed' = failed + 1
                /\ UNCHANGED <<requested, added>>
           ELSE /\ requested' = requested \cup {k}
                /\ IF answer = "none"
                   THEN failed' = failed + 1 /\ UNCHANGED added
                   ELSE added' = added \cup {k} /\ UNCHANGED failed
    /\ epos' = epos + 1
    /\ UNCHANGED <<script, entries, loaded, epc>>
    /\ UNCHANGED <<upsertVars, retryVars, parVars, updVars, indVars, consoleVars,
                 fetchVars>>

\* update_coingecko_json: one iteration of "for t in existing_coins".
\* coingecko_id = t.get('coingecko_id') is handed to fetch_coingecko_recent as
\* it is, requests.get is sent for /coins/None/ohlc, and the vendor has no data
\* under that name.  The script keeps no failure counter.
CoingeckoEntry(answer) ==
    /\ epc = "loop"
    /\ script = "update_coingecko_json"
    /\ epos <= Len(loaded)
    /\ LET k == loaded[epos]
           t == entries[k]
       IN  /\ t.symbol \/ answer = "none"
           /\ requested' = requested \cup {k}
           /\ added' = IF answer = "none" THEN added ELSE added \cup {k}
    /\ epos' = epos + 1
    /\ UNCHANGED <<script, entries, loaded, failed, epc>>
    /\ UNCHANGED <<upsertVars, retryVars, parVars, updVars, indVars, consoleVars,
                 fetchVars>>

\* the loop is over
EntriesDone ==
    /\ epc = "loop"
    /\ epos > Len(loaded)
    /\ epc' = "done"
    /\ UNCHANGED <<script, entries, loaded, epos, requested, failed, added>>
    /\ UNCHANGED <<upsertVars, retryVars, parVars, updVars, indVars, consoleVars,
                 fetchVars>>

(***************************************************************************)
(* The console during parallel_process(items, func), func decorated with   *)
(* retry_on_failure.                                                       *)
(*                                                                         *)
(* A call of print takes time: the thread is in inPrint from its start to  *)
(* its end.  utils_common.py creates no lock, so nothing is acquired       *)
(* before a print and nothing keeps a thread from starting one.            *)
(***************************************************************************)
Coordinator == 0

IdleConsole == inPrint = {}

\* wrapper of retry_on_failure on a pool thread: a call of func raised, it was
\* not the last attempt, print(...) of the retry notice starts
NoticeBegins(w) ==
    /\ worker[w] # 0
    /\ w \notin inPrint
    /\ inPrint' = inPrint \cup {w}
    /\ UNCHANGED <<upsertVars, retryVars, parVars, updVars, indVars, entryVars,
                 fetchVars>>

\* the print of the pool thread returns
NoticeEnds(w) ==
    /\ w \in inPrint
    /\ inPrint' = inPrint \ {w}
    /\ UNCHANGED <<upsertVars, retryVars, parVars, updVars, indVars, entryVars,
                 fetchVars>>

\* the calling thread in the as_completed loop starts the print of a progress
\* line or of the failure line of a future
LineBegins ==
    /\ ppc = "collect"
    /\ Coordinator \notin inPrint
    /\ \E i \in 1..nItems :
           /\ i \notin collected
           /\ fstate[i] \in DoneStates
           /\ PrintsProgress(completed + 1, nItems) \/ fstate[i] = "raised"
    /\ inPrint' = inPrint \cup {Coordinator}
    /\ UNCHANGED <<upsertVars, retryVars, parVars, updVars, indVars, entryVars,
                 fetchVars>>

\* the print of the calling thread returns
LineEnds ==
    /\ Coordinator \in inPrint
    /\ inPrint' = inPrint \ {Coordinator}
    /\ UNCHANGED <<upsertVars, retryVars, parVars, updVars, indVars, entryVars,
                 fetchVars>>

\* func returns or raises for good on a pool thread that is not printing
WorkerFinishesQuiet(w, o) == w \notin inPrint /\ WorkerFinishes(w, o)

\* the loop body for a future, the calling thread not being inside a print
CollectQuiet(i) == Coordinator \notin inPrint /\ Collect(i)

(***************************************************************************)
(* rebuild_upbit_history.fetch_candles                                     *)
(*                                                                         *)
(* A candle is its day (candle_date_time_kst[:10]; ISO dates compare as    *)
(* the days do).  The vendor holds one candle per day from vendor_first    *)
(* on and answers a request with the newest candles, at most PAGE_SIZE,    *)
(* of the days up to the day of 'to', the newest first.                    *)
(***************************************************************************)
PAGE_SIZE == 200
MAX_ITERATIONS == 20
FETCH_MAX_RETRIES == 3
StartDates == {1, 101, 201}
EndDates == {300, 450, MaxDay}
VendorFirsts == {1, 251, MaxDay + 1}

\* res.json() of GET /candles/days with count = 200 and to = <to>T23:59:59
VendorPage(to) ==
    LET n == IF to < vendor_first THEN 0
             ELSE IF to - vendor_first + 1 < PAGE_SIZE THEN to - vendor_first + 1
             ELSE PAGE_SIZE
    IN  [i \in 1..n |-> to - i + 1]

\* filtered = [c for c in all_candles if day >= start_date]; filtered.sort(...)
FilterAndSort(all) ==
    SortSeq(SelectSeq(all, LAMBDA c : c >= start_date), LAMBDA a, b : a < b)

InitFetchVars ==
    /\ vendor_first \in VendorFirsts
    /\ start_date \in StartDates
    /\ end_date \in EndDates
    /\ all_candles = <<>>
    /\ current_end = end_date
    /\ iteration = 0
    /\ retry_count = 0
    /\ requests = 0
    /\ raised = 0
    /\ filtered = <<>>
    /\ fpc = "loop"

IdleFetch ==
    /\ vendor_first = 0
    /\ start_date = 0
    /\ end_date = 0
    /\ all_candles = <<>>
    /\ current_end = 0
    /\ iteration = 0
    /\ retry_count = 0
    /\ requests = 0
    /\ raised = 0
    /\ filtered = <<>>
    /\ fpc = "off"

\* one iteration of the for loop in which the request is answered
RequestAnswered ==
    /\ fpc = "loop"
    /\ iteration < MAX_ITERATIONS
    /\ requests' = requests + 1
    /\ LET candles == VendorPage(current_end)
           oldest_date == candles[Len(candles)]
       IN  IF candles = <<>>
           THEN \* if not candles: break
                /\ fpc' = "returned"
                /\ filtered' = FilterAndSort(all_candles)
                /\ UNCHANGED <<all_candles, current_end, iteration, retry_count>>
           ELSE /\ all_candles' = all_candles \o candles
                /\ IF oldest_date <= start_date \/ Len(candles) < PAGE_SIZE
                   THEN /\ fpc' = "returned"
                        /\ filtered' = FilterAndSort(all_candles')
                        /\ UNCHANGED <<current_end, iteration, retry_count>>
                   ELSE /\ current_end' = oldest_date
                        /\ IF current_end = oldest_date
                           THEN /\ fpc' = "returned"
                                /\ filtered' = FilterAndSort(all_candles')
                                /\ UNCHANGED <<iteration, retry_count>>
                           ELSE /\ retry_count' = 0
                                /\ iteration' = iteration + 1
                                /\ UNCHANGED <<filtered, fpc>>
    /\ UNCHANGED <<vendor_first, start_date, end_date, raised>>
    /\ UNCHANGED <<upsertVars, retryVars, parVars, updVars, indVars, entryVars,
                 consoleVars>>

\* one iteration in which requests.get or raise_for_status raises
\* RequestException
RequestRaises ==
    /\ fpc = "loop"
    /\ iteration < MAX_ITERATIONS
    /\ requests' = requests + 1
    /\ raised' = raised + 1
    /\ retry_count' = retry_count + 1
    /\ IF retry_count + 1 >= FETCH_MAX_RETRIES
       THEN /\ fpc' = "returned"
            /\ filtered' = FilterAndSort(all_candles)
            /\ UNCHANGED iteration
       ELSE /\ iteration' = iteration + 1
            /\ UNCHANGED <<filtered, fpc>>
    /\ UNCHANGED <<vendor_first, start_date, end_date, all_candles, current_end>>
    /\ UNCHANGED <<upsertVars, retryVars, parVars, updVars, indVars, entryVars,
                 consoleVars>>

\* range(max_iterations) is used up
IterationsExhausted ==
    /\ fpc = "loop"
    /\ iteration = MAX_ITERATIONS
    /\ fpc' = "returned"
    /\ filtered' = FilterAndSort(all_candles)
    /\ UNCHANGED <<vendor_first, start_date, end_date, all_candles, current_end,
                   iteration, retry_count, requests, raised>>
    /\ UNCHANGED <<upsertVars, retryVars, parVars, updVars, indVars, entryVars,
                 consoleVars>>

(***************************************************************************)
(* Specifications                                                          *)
(***************************************************************************)
InitUpsert ==
    InitUpsertVars /\ IdleRetry /\ IdlePar /\ IdleUpd /\ IdleInd
    /\ IdleEntry /\ IdleConsole /\ IdleFetch
NextUpsert == \E c \in Candle : Upsert(c)
SpecUpsert == InitUpsert /\ [][NextUpsert]_vars

InitRetry ==
    InitRetryVars /\ IdleUpsert /\ IdlePar /\ IdleUpd /\ IdleInd
    /\ IdleEntry /\ IdleConsole /\ IdleFetch
NextRetry == CallReturns \/ CallRaisesLast \/ CallRaisesRetry \/ LoopExhausted
SpecRetry == InitRetry /\ [][NextRetry]_vars

InitPar ==
    InitParVars /\ IdleUpsert /\ IdleRetry /\ IdleUpd /\ IdleInd
    /\ IdleEntry /\ IdleConsole /\ IdleFetch
NextPar ==
    \/ Submit
    \/ AllSubmitted
    \/ \E w \in Workers : WorkerStarts(w)
    \/ \E w \in Workers, o \in DoneStates : WorkerFinishes(w, o)
    \/ \E i \in Items : Collect(i)
    \/ ParReturns
SpecPar == InitPar /\ [][NextPar]_vars

InitUpdate ==
    InitUpdVars /\ IdleUpsert /\ IdleRetry /\ IdlePar /\ IdleInd
    /\ IdleEntry /\ IdleConsole /\ IdleFetch
NextUpdate ==
    \/ \E tl \in TickerLists : StartRun(tl)
    \/ \E candles \in Responses : UpdateExisting(candles)
    \/ ExistingDone
    \/ \E candles \in Responses : ProcessNew(candles)
    \/ SaveRun
SpecUpdate == InitUpdate /\ [][NextUpdate]_vars

InitIndicators ==
    InitIndVars /\ IdleUpsert /\ IdleRetry /\ IdlePar /\ IdleUpd
    /\ IdleEntry /\ IdleConsole /\ IdleFetch
NextIndicators ==
    \/ \E c \in SeriesCloses : AppendCandle(c)
    \/ ComputeIndicators
SpecIndicators == InitIndicators /\ [][NextIndicators]_vars

NextVolume ==
    \/ \E v \in SeriesVolumes : AppendCandleWithVolume(v)
    \/ ComputeIndicators
SpecVolume == InitIndicators /\ [][NextVolume]_vars

\* Runs over a ticker list that names more unknown instruments than the cap
\* allows in one run; a full-history fetch answers nothing or one candle.
NewListing == <<"T1", "T2", "T3", "T4", "T5", "T6", "T7">>
BackfillCandle == [date : {16}, close : RespCloses, rsi : {Null}]
BackfillResponses == SeqsUpTo(BackfillCandle, 1)

NextBackfill ==
    \/ StartRun(NewListing)
    \/ \E candles \in BackfillResponses : UpdateExisting(candles)
    \/ ExistingDone
    \/ \E candles \in BackfillResponses : ProcessNew(candles)
    \/ SaveRun
SpecBackfill == InitUpdate /\ [][NextBackfill]_vars

\* The same runs repeated for ever (the workflow starts the script every day
\* and every loop of main terminates), with the vendor answering data for
\* SteadyTicker whenever its full history is fetched.
SteadyTicker == "T6"
ProcessNewSteady(candles) ==
    /\ ProcessNew(candles)
    /\ ProcessNewList[pos] = SteadyTicker => candles # <<>>

NextBackfillSteady ==
    \/ StartRun(NewListing)
    \/ \E candles \in BackfillResponses : UpdateExisting(candles)
    \/ ExistingDone
    \/ \E candles \in BackfillResponses : ProcessNewSteady(candles)
    \/ SaveRun
SpecBackfillFair ==
    InitUpdate /\ [][NextBackfillSteady]_vars /\ WF_vars(NextBackfillSteady)

\* Runs of update_us_json.py over ticker files in which the entry of an
\* instrument lacks its symbol; a fetch answers nothing or one candle.
MalformedLists == {<<"B", "A">>, <<"N", "X">>, <<"A", "N">>}
OneCandleResponses == SeqsUpTo(RespCandle, 1)

NextMalformed ==
    \/ \E tl \in MalformedLists : StartRun(tl)
    \/ \E candles \in OneCandleResponses : UpdateExisting(candles)
    \/ UpdateExistingKeyError
    \/ ExistingDone
    \/ \E candles \in OneCandleResponses : ProcessNew(candles)
    \/ ProcessNewKeyError
    \/ SaveRun
SpecMalformed == InitUpdate /\ [][NextMalformed]_vars

\* Runs of update_cryptocompare_json.py.  live_tickers is the vendor's
\* listing as fetch_top_coins returns it: the pages one after the other, an
\* mcv_id built from each coin's symbol, no de-duplication.  A coin whose rank
\* moves across a page border between two page requests is listed twice.
LiveListings == {<<"N", "A", "N">>, <<"A", "N">>, <<"A">>}

NextLive ==
    \/ \E tl \in LiveListings : StartRun(tl)
    \/ \E candles \in OneCandleResponses : UpdateExisting(candles)
    \/ ExistingDone
    \/ \E candles \in OneCandleResponses : ProcessNew(candles)
    \/ SaveRun
SpecLive == InitUpdate /\ [][NextLive]_vars

\* Runs of update_us_json.py that may be killed, the save taken step by step.
NextSave ==
    \/ \E tl \in TickerLists : StartRun(tl)
    \/ \E candles \in OneCandleResponses : UpdateExisting(candles)
    \/ ExistingDone
    \/ \E candles \in OneCandleResponses : ProcessNew(candles)
    \/ SaveOpens
    \/ SaveWrites
    \/ SaveCloses
    \/ Kill
SpecSave == InitUpdate /\ [][NextSave]_vars

InitEntries ==
    InitEntryVars /\ IdleUpsert /\ IdleRetry /\ IdlePar /\ IdleUpd /\ IdleInd
    /\ IdleConsole /\ IdleFetch
NextEntries ==
    \/ LoadTickers
    \/ \E answer \in Answers : RebuildEntry(answer)
    \/ \E answer \in Answers : RetryEntry(answer)
    \/ \E answer \in Answers : CoingeckoEntry(answer)
    \/ EntriesDone
SpecEntries == InitEntries /\ [][NextEntries]_vars

InitConsole ==
    InitParVars /\ IdleUpsert /\ IdleRetry /\ IdleUpd /\ IdleInd
    /\ IdleEntry /\ IdleConsole /\ IdleFetch
NextConsole ==
    \/ Submit
    \/ AllSubmitted
    \/ \E w \in Workers : WorkerStarts(w)
    \/ \E w \in Workers : NoticeBegins(w)
    \/ \E w \in Workers : NoticeEnds(w)
    \/ \E w \in Workers, o \in DoneStates : WorkerFinishesQuiet(w, o)
    \/ LineBegins
    \/ LineEnds
    \/ \E i \in Items : CollectQuiet(i)
    \/ ParReturns
SpecConsole == InitConsole /\ [][NextConsole]_vars

InitFetch ==
    InitFetchVars /\ IdleUpsert /\ IdleRetry /\ IdlePar /\ IdleUpd /\ IdleInd
    /\ IdleEntry /\ IdleConsole
NextFetch ==
    \/ RequestAnswered
    \/ RequestRaises
    \/ IterationsExhausted
SpecFetch == InitFetch /\ [][NextFetch]_vars

NextUpbit ==
    \/ \E markets \in TickerLists : UpbitStart(markets)
    \/ \E d \in UpbitAnswers : UpbitMarket(d)
    \/ UpbitSave
SpecUpbit == InitUpdate /\ [][NextUpbit]_vars

(***************************************************************************)
(* Properties of upsert_history (specification SpecUpsert)                 *)
(***************************************************************************)
DateSet(H) == {H[i].date : i \in 1..Len(H)}
DistinctDates(H) == \A i, j \in 1..Len(H) : H[i].date = H[j].date => i = j
Upserted == newRecord # NoRecord

\* C1: upsert_history(H, c): when a record of H has c's date the result has
\* the length of H, holds c at the index of such a record and equals H at
\* every other index; otherwise the result is H followed by c.
C1_UpsertReplacesOrAppends ==
    Upserted =>
        IF \E i \in 1..Len(prevHistory) : prevHistory[i].date = newRecord.date
        THEN /\ Len(history) = Len(prevHistory)
             /\ \E i \in 1..Len(prevHistory) :
                    /\ prevHistory[i].date = newRecord.date
                    /\ history[i] = newRecord
                    /\ \A j \in 1..Len(prevHistory) :
                           j # i => history[j] = prevHistory[j]
        ELSE /\ Len(history) = Len(prevHistory) + 1
             /\ history[Len(history)] = newRecord
             /\ \A j \in 1..Len(prevHistory) : history[j] = prevHistory[j]

\* C1 witness: a record that is not the last one was overwritten in place
\* by a candle with other values.
C1_Witness ==
    /\ Upserted
    /\ Len(prevHistory) >= 2
    /\ Len(history) = Len(prevHistory)
    /\ prevHistory[1].date = newRecord.date
    /\ prevHistory[1] # newRecord
    /\ history[1] = newRecord

\* C2: upsert is idempotent: upserting the candle of the last upsert again
\* gives the list that the last upsert produced.
C2_UpsertIdempotent ==
    Upserted => upsert_history(history, newRecord) = history

\* C2 witness: the last upsert appended its candle (the second application
\* has to find the record the first one added).
C2_Witness ==
    /\ Upserted
    /\ Len(history) = Len(prevHistory) + 1
    /\ Len(prevHistory) >= 1

\* C3: on a history with pairwise distinct dates, upsert yields pairwise
\* distinct dates, exactly the old dates plus c.date, and keeps every record
\* with another date; a history grown from the empty one by upserts never
\* holds a date twice.
C3_UpsertKeepsDatesDistinct ==
    /\ (Upserted /\ DistinctDates(prevHistory)) =>
           /\ DistinctDates(history)
           /\ DateSet(history) = DateSet(prevHistory) \cup {newRecord.date}
           /\ \A i \in 1..Len(prevHistory) :
                  prevHistory[i].date # newRecord.date =>
                      \E j \in 1..Len(history) : history[j] = prevHistory[i]
    /\ fromEmpty => DistinctDates(history)

\* C3 witness: a history grown from the empty one holds several dates and
\* the last upsert hit a date already present.
C3_Witness ==
    /\ fromEmpty
    /\ Upserted
    /\ Len(history) >= 2
    /\ Len(history) = Len(prevHistory)
    /\ history # prevHistory

(***************************************************************************)
(* Properties of retry_on_failure (specification SpecRetry)                *)
(***************************************************************************)
AllCallsRaised == failures = calls
RetryDone == rpc \in {"returned", "raised"}

\* C4: when every call raises and max_retries >= 1, the wrapper makes exactly
\* max_retries calls and ends by propagating the exception of the last call;
\* it does not return normally and does not stop before that.
C4_ExhaustedRetriesPropagate ==
    /\ rpc = "raised" =>
           /\ calls = max_retries
           /\ failures = max_retries
           /\ outcome = max_retries
    /\ (max_retries >= 1 /\ AllCallsRaised /\ RetryDone) => rpc = "raised"
    /\ (max_retries >= 1 /\ AllCallsRaised /\ ~RetryDone) =>
           /\ calls < max_retries
           /\ ENABLED (CallRaisesLast \/ CallRaisesRetry)

\* C4 witness: four calls, all raising, and the fourth exception propagated.
C4_Witness ==
    /\ rpc = "raised"
    /\ max_retries = DefaultMaxRetries
    /\ calls = 4
    /\ failures = 4
    /\ outcome = 4

\* C5 (as claimed): with the defaults (4, 1) and a function failing on every
\* attempt the delays slept are 1, 2, 4, 8 in that order.
C5_DefaultDelaysAsDocumented ==
    (/\ max_retries = DefaultMaxRetries
     /\ base_delay = DefaultBaseDelay
     /\ rpc = "raised") => sleeps = <<1, 2, 4, 8>>

\* C6: after k failures followed by a success (k < max_retries) the wrapper
\* has returned the value of call k+1 after exactly k+1 calls and k sleeps of
\* base_delay*2^0 .. base_delay*2^(k-1), and takes no further step.
C6_SuccessAfterFailures ==
    (rpc = "returned" /\ max_retries >= 1) =>
        /\ failures < max_retries
        /\ calls = failures + 1
        /\ outcome = calls
        /\ Len(sleeps) = failures
        /\ notices = failures
        /\ \A i \in 1..failures : sleeps[i] = base_delay * Pow2(i - 1)
        /\ ~ENABLED (CallReturns \/ CallRaisesLast \/ CallRaisesRetry \/ LoopExhausted)

\* C6 witness: max_retries = 4, two failures then a success: three calls,
\* sleeps 1 then 2.
C6_Witness ==
    /\ rpc = "returned"
    /\ max_retries = DefaultMaxRetries
    /\ base_delay = DefaultBaseDelay
    /\ failures = 2
    /\ calls = 3
    /\ sleeps = <<1, 2>>

(***************************************************************************)
(* Properties of parallel_process (specification SpecPar)                  *)
(***************************************************************************)
SeqSet(q) == {q[k] : k \in 1..Len(q)}
NoRepeats(q) == \A k, l \in 1..Len(q) : q[k] = q[l] => k = l
Running == {i \in Items : fstate[i] = "running"}

\* C7: under every scheduling parallel_process ends by returning, never by
\* raising; the returned list holds exactly one result for each item on which
\* func returned a value and none for an item on which it raised; exactly one
\* failure line is printed for each raising item and none for any other.
C7_FailuresAreContained ==
    /\ ppc # "raised"
    /\ ppc \in {"submit", "collect"} => ENABLED NextPar
    /\ ppc = "returned" =>
           /\ SeqSet(results) = {i \in Items : fstate[i] = "value"}
           /\ NoRepeats(results)
           /\ SeqSet(failNotices) = {i \in Items : fstate[i] = "raised"}
           /\ NoRepeats(failNotices)
           /\ completed = nItems

\* C7 witness: a pool smaller than the batch, one item raised, and every
\* other item returned a value.
C7_Witness ==
    /\ ppc = "returned"
    /\ nItems = 4
    /\ max_workers = 2
    /\ Len(failNotices) = 1
    /\ Len(results) = 3
    /\ fstate[2] = "raised"

\* C8: func is invoked exactly once per item, never more than max_workers
\* invocations are in progress, a thread leaves an item only when that item
\* has completed, and the call returns only after every item has completed.
C8_OncePerItemBoundedPool ==
    /\ [](/\ \A i \in Items : invoked[i] <= 1
          /\ Cardinality(Running) <= max_workers
          /\ \A i \in Running : \E w \in Workers : worker[w] = i
          /\ ppc = "returned" =>
                 \A i \in Items : invoked[i] = 1 /\ fstate[i] \in DoneStates)
    /\ [][\A w \in Workers :
              (worker[w] # 0 /\ worker'[w] # worker[w]) =>
                  (worker'[w] = 0 /\ fstate'[worker[w]] \in DoneStates)]_vars

\* C8 witness: the call has returned from a batch larger than the pool, so
\* some thread ran several items one after the other.
C8_Witness ==
    /\ ppc = "returned"
    /\ nItems = 4
    /\ max_workers = 2
    /\ \A i \in Items : invoked[i] = 1

(***************************************************************************)
(* Properties of the daily update run (specification SpecUpdate)           *)
(***************************************************************************)
SeriesOf(data, id) == data[IndexOfId(data, id)].history
DatesAndCloses(H) == [i \in 1..Len(H) |-> [date |-> H[i].date, close |-> H[i].close]]

\* C9 (as claimed): after any sequence of update runs and for any vendor
\* response, no stored history holds two candles with the same date.
C9_StoredDatesUnique ==
    \A k \in 1..Len(disk) : DistinctDates(disk[k].history)

\* C10 (as claimed): whenever indicators are computed for an instrument, its
\* candle sequence is in ascending date order, so that the record the
\* indicators are written on (the last one) carries the latest date.
C10_IndicatorsOnSortedHistory ==
    computedOn # <<>> =>
        /\ \A i, j \in 1..Len(computedOn) :
               i < j => computedOn[i].date <= computedOn[j].date
        /\ \A i \in 1..Len(computedOn) :
               computedOn[i].date <= computedOn[Len(computedOn)].date

\* C11 (as claimed): when the vendor answers one candle whose date is already
\* in the stored history of an instrument of the Catalog, the stored candle of
\* that date takes the fetched close, stays at its index, and the history
\* keeps its length.
C11_FetchedCandleOverwritesStored ==
    [][\A candles \in Responses :
          (/\ UpdateExisting(candles)
           /\ Len(candles) = 1
           /\ candles[1].date \in
                  DateSet(catalog[IndexOfId(catalog, existing_tickers[pos])].history)) =>
              LET k == IndexOfId(catalog, existing_tickers[pos])
                  old == catalog[k].history
                  new == catalog'[k].history
              IN  /\ Len(new) = Len(old)
                  /\ \A i \in 1..Len(old) :
                         old[i].date = candles[1].date =>
                             /\ new[i].date = candles[1].date
                             /\ new[i].close = candles[1].close]_vars

\* C12: every mcv_id of the Catalog Document is kept by every step of every
\* run, with every candle date stored for it: in the catalog of the running
\* process as in the document written at the end, also for an instrument that
\* is in no ticker list.
C12_InstrumentsAndDatesRetained ==
    /\ [](upc \in {"existing", "new"} =>
             \A k \in 1..Len(disk) : \E l \in 1..Len(catalog) :
                 /\ catalog[l].mcv_id = disk[k].mcv_id
                 /\ DateSet(disk[k].history) \subseteq DateSet(catalog[l].history))
    /\ [][\A k \in 1..Len(disk) : \E l \in 1..Len(disk') :
              /\ disk'[l].mcv_id = disk[k].mcv_id
              /\ DateSet(disk[k].history) \subseteq DateSet(disk'[l].history)]_vars

\* C12 witness: a run whose ticker list did not name "A" or "B" has saved: it
\* added "N", and "A" and "B" are still in the document.
C12_Witness ==
    /\ upc = "idle"
    /\ HasId(disk, "N")
    /\ HasId(disk, "A")
    /\ HasId(disk, "B")
    /\ Len(disk[IndexOfId(disk, "A")].history) = 14

\* C13: an iteration whose fetch returns no data leaves the whole catalog of
\* the process as it was (no candle added, removed or changed, no indicator
\* rewritten); the iterations for new instruments change no series already in
\* the catalog, and the save writes the catalog as it is.
C13_EmptyFetchLeavesHistory ==
    /\ [][UpdateExisting(<<>>) => catalog' = catalog]_vars
    /\ [][(upc = "new" /\ upc' = "new") =>
              \A k \in 1..Len(catalog) : catalog'[k] = catalog[k]]_vars
    /\ [][(upc = "new" /\ upc' = "idle") => disk' = catalog]_vars

\* C13 witness: the first existing instrument of the run was fetched with an
\* empty answer, the catalog of the process still equals the document.
C13_Witness ==
    /\ upc = "existing"
    /\ pos = 2
    /\ computedOn = <<>>
    /\ catalog = disk
    /\ Len(disk[IndexOfId(disk, "A")].history) > 14

\* C17: indicator computation on a history (here every history that a run
\* has saved) keeps its length and order, every candle's date and close and
\* the derived fields of every record but the last; an update that appends
\* one candle with a later date gives a history one longer, the new candle
\* last and every earlier record as it was.
C17_IndicatorsTouchLastRecordOnly ==
    /\ [](upc = "idle" =>
             \A k \in 1..Len(disk) :
                 LET h == disk[k].history
                     r == calculate_and_update_indicators(h)
                 IN  /\ Len(r) = Len(h)
                     /\ DatesAndCloses(r) = DatesAndCloses(h)
                     /\ \A i \in 1..(Len(h) - 1) : r[i] = h[i])
    /\ [][\A candles \in Responses :
              LET k == IndexOfId(catalog, existing_tickers[pos])
                  old == catalog[k].history
                  new == catalog'[k].history
              IN  (/\ upc = "existing"
                   /\ pos' = pos + 1
                   /\ Len(candles) = 1
                   /\ \A i \in 1..Len(old) : old[i].date < candles[1].date
                   /\ UpdateExisting(candles)) =>
                      /\ Len(new) = Len(old) + 1
                      /\ new[Len(new)].date = candles[1].date
                      /\ new[Len(new)].close = candles[1].close
                      /\ \A i \in 1..Len(old) : new[i] = old[i]]_vars

\* C17 witness: a candle of a later date was appended to a history of 14
\* candles and the indicators were computed: RSI is a number on the 15th
\* record and on no other.
C17_Witness ==
    /\ upc = "existing"
    /\ Len(computedOn) = 15
    /\ computedOn[15].date = 15
    /\ LET h == SeriesOf(catalog, "A")
       IN  /\ Len(h) = 15
           /\ h[15].rsi # Null
           /\ \A i \in 1..14 : h[i].rsi = Null

(***************************************************************************)
(* Properties of the upbit update run (specification SpecUpbit)            *)
(***************************************************************************)
\* C14 (as claimed): a series that a run creates for an instrument that was
\* not in the Catalog holds the candles of a full-history fetch for it (every
\* day candle the vendor holds up to the fetched one), not only the most
\* recent candle; an instrument whose fetch fails is not added.
C14_NewSeriesIsBackfilled ==
    upc = "markets" =>
        /\ \A i \in 1..Len(new_tickers) :
               LET h == SeriesOf(catalog, new_tickers[i])
               IN  \E d \in RespDates :
                       /\ Len(h) >= d
                       /\ DatesAndCloses(SubSeq(h, 1, d)) = DatesAndCloses(fetch_candles(d))
        /\ \A l \in 1..Len(catalog) :
               HasId(disk, catalog[l].mcv_id) \/ catalog[l].mcv_id \in SeqSet(new_tickers)

(***************************************************************************)
(* Properties of the new-instrument cap (specifications SpecBackfill and   *)
(* SpecBackfillFair)                                                       *)
(***************************************************************************)
\* C15: in one run at most MAX_NEW_TICKERS unknown instruments are fetched
\* for backfill and added, whatever the number of unknown instruments in the
\* ticker list; the instruments behind the first MAX_NEW_TICKERS unknown ones
\* are not in the catalog of the run nor in the saved document.
C15_AtMostFiveNewPerRun ==
    /\ [](upc = "new" =>
             /\ pos <= MAX_NEW_TICKERS + 1
             /\ Len(catalog) <= Len(disk) + MAX_NEW_TICKERS
             /\ \A i \in (MAX_NEW_TICKERS + 1)..Len(new_tickers) :
                    ~HasId(catalog, new_tickers[i]))
    /\ [][/\ Len(disk') <= Len(disk) + MAX_NEW_TICKERS
          /\ \A i \in (MAX_NEW_TICKERS + 1)..Len(new_tickers) :
                 ~HasId(disk', new_tickers[i])]_vars

\* C15 witness: a run over a list with seven unknown instruments has saved:
\* the first five are in the document, the sixth and seventh are not.
C15_Witness ==
    /\ upc = "idle"
    /\ Len(disk) = Len(CatalogIds) + MAX_NEW_TICKERS
    /\ \A i \in 1..MAX_NEW_TICKERS : HasId(disk, NewListing[i])
    /\ ~HasId(disk, "T6")
    /\ ~HasId(disk, "T7")

\* C16 (as claimed): with a fixed ticker list and runs repeated for ever, an
\* unknown instrument whose full-history fetch answers data whenever it is
\* made is eventually in the Catalog Document, also when the unknown
\* instruments ahead of it in the list answer no data in every run.
C16_SteadyInstrumentEventuallyAdded ==
    <>HasId(disk, SteadyTicker)

(***************************************************************************)
(* Properties of the indicator functions (specification SpecIndicators)    *)
(***************************************************************************)
Called == indicators.status # "none"
NoStepDown(H) == \A i \in 1..(Len(H) - 1) : H[i].close <= H[i + 1].close

\* C18 (as claimed): for each period p of 20, 50, 120, 200 the computed
\* ema<p>_diff is null when the window holds fewer than p observations; with
\* fewer than 14 observations RSI and the four EMA deviations are null.
C18_EmaDiffNullBelowPeriod ==
    indicators.status = "returned" =>
        /\ \A p \in EMA_PERIODS :
               Len(series) < p => indicators.ema_diff_is_none[p]
        /\ Len(series) < 14 =>
               /\ indicators.rsi = Null
               /\ \A p \in EMA_PERIODS : indicators.ema_diff_is_none[p]

\* C19 (as claimed): on every history of fewer than 15 candles, the empty one
\* included, the indicator computation returns (does not raise) with RSI
\* null; on 15 or more closes RSI is a number.
C19_ShortHistoryIsNotAnError ==
    Called =>
        /\ Len(series) < 15 =>
               (indicators.status = "returned" /\ indicators.rsi = Null)
        /\ Len(series) >= 15 =>
               (indicators.status = "returned" /\ indicators.rsi \in 0..10000)

\* C20: on every series of 15 or more prices without a step down
\* calculate_rsi returns 100.0 (10000 hundredths): the division by avg_loss
\* is not reached.
C20_RsiIs100WithoutLosses ==
    /\ (Len(series) >= 15 /\ NoStepDown(series)) =>
           calculate_rsi(AllCloses(series)) = 10000
    /\ (indicators.status = "returned" /\ Len(series) >= 15 /\ NoStepDown(series)) =>
           indicators.rsi = 10000

\* C20 witness: 16 prices with gains and no loss, so that the smoothing loop
\* ran, and the call returned RSI 100.
C20_Witness ==
    /\ indicators.status = "returned"
    /\ Len(series) = 16
    /\ NoStepDown(series)
    /\ series[1].close < series[16].close
    /\ series[15].close < series[16].close
    /\ indicators.rsi = 10000

\* C21: whenever calculate_rsi returns a value (15 or more prices) the value
\* is in [0, 100], and the running average gain and average loss are not
\* negative after any step.
C21_RsiWithinBounds ==
    Len(series) >= 15 =>
        /\ \A i \in RSI_PERIOD..(Len(series) - 1) :
               /\ WilderGain(AllCloses(series), i) >= 0
               /\ WilderLoss(AllCloses(series), i) >= 0
        /\ calculate_rsi(AllCloses(series)) \in 0..10000
        /\ indicators.status = "returned" => indicators.rsi \in 0..10000

\* C21 witness: a series of 16 prices with gains and losses: the call
\* returned an RSI strictly between 0 and 100.
C21_Witness ==
    /\ indicators.status = "returned"
    /\ Len(series) = 16
    /\ indicators.rsi \in 1..9999
    /\ series[15].close > series[16].close

(***************************************************************************)
(* Further properties of parallel_process (specification SpecPar)          *)
(***************************************************************************)
\* C26: the result list and the counters (completed, the failure and
\* progress lines) change only in a step of the coordinating thread's
\* collection loop; a step of a pool thread (taking or finishing an item)
\* changes none of them, it only sets the future it ran.
C26_AggregatesWrittenByCoordinator ==
    /\ [][(\/ results' # results
           \/ completed' # completed
           \/ failNotices' # failNotices
           \/ progressLines' # progressLines) =>
              (ppc = "collect" /\ worker' = worker /\ \E i \in Items : Collect(i))]_vars
    /\ [][worker' # worker =>
              /\ UNCHANGED <<results, completed, failNotices, progressLines, collected>>
              /\ \A i \in Items :
                     fstate'[i] # fstate[i] =>
                         \E w \in Workers : worker[w] = i \/ worker'[w] = i]_vars

\* C26 witness: a result was collected while a pool thread was still running
\* another item.
C26_Witness ==
    /\ ppc = "collect"
    /\ Len(results) >= 1
    /\ \E w \in Workers : worker[w] # 0

\* C30: an item on which func returns None adds nothing to the returned list
\* and prints no failure line: the list holds exactly the items whose call
\* returned a value, and its length plus the number of failure lines equals
\* the number of items exactly when no call returned None.
C30_NoneResultsAreDropped ==
    ppc = "returned" =>
        /\ SeqSet(results) = {i \in Items : fstate[i] = "value"}
        /\ NoRepeats(results)
        /\ \A i \in Items :
               fstate[i] = "none" => (i \notin SeqSet(results) /\ i \notin SeqSet(failNotices))
        /\ (Len(results) + Len(failNotices) = nItems) <=>
               (\A i \in Items : fstate[i] # "none")

\* C30 witness: of three items one returned a value, one returned None and
\* one raised: one result, one failure line.
C30_Witness ==
    /\ ppc = "returned"
    /\ nItems = 3
    /\ fstate[1] = "none"
    /\ fstate[2] = "value"
    /\ fstate[3] = "raised"
    /\ results = <<2>>
    /\ failNotices = <<3>>

(***************************************************************************)
(* Properties of the volume ratios (specification SpecVolume)              *)
(***************************************************************************)
\* the volumes present in the last n candles of the window
VolumeData(H, n) ==
    {VolumeOf(LastN(LastN(H, WINDOW), n)[k]) : k \in 1..Len(LastN(LastN(H, WINDOW), n))}
        \ {Null}
MaxIn(S) == CHOOSE x \in S : \A y \in S : y <= x
ClaimedRatio(H, n) ==
    LET data == VolumeData(H, n)
        last == VolumeOf(H[Len(H)])
    IN  IF data = {} \/ MaxIn(data) = 0 \/ last = Null THEN Null
        ELSE RoundRatio(last, MaxIn(data))

\* C22 (as claimed): volume_ratio_90d and volume_ratio_alltime are the volume
\* of the most recent candle divided by the largest volume of the trailing 90
\* observations and of the trailing 250-candle window, null when the window
\* holds no volume data or the largest volume is zero; the numerator is never
\* the volume of an earlier candle.
C22_VolumeRatioOfLatestCandle ==
    indicators.status = "returned" =>
        /\ indicators.volume_ratio_90d = ClaimedRatio(series, VOLUME_DAYS)
        /\ indicators.volume_ratio_alltime = ClaimedRatio(series, WINDOW)

(***************************************************************************)
(* Containment of per-instrument failures (specification SpecMalformed)    *)
(***************************************************************************)
\* C23: a failure on one instrument, an entry without its symbol included,
\* never aborts the daily update run: a started run ends only by saving the
\* Catalog after every listed instrument has been processed.
C23_RunEndsOnlyBySaving ==
    [][(upc \in {"existing", "new"} /\ upc' = "idle") =>
           /\ upc = "new"
           /\ pos > Len(ProcessNewList)
           /\ disk' = catalog]_vars

(***************************************************************************)
(* Uniqueness of the series key (specification SpecLive)                   *)
(***************************************************************************)
\* C28: no two Instrument Series of the persisted Catalog share an mcv_id,
\* also when the vendor's live listing holds two entries of one mcv_id.
C28_SeriesKeysUnique ==
    \A i, j \in 1..Len(disk) : disk[i].mcv_id = disk[j].mcv_id => i = j

(***************************************************************************)
(* The write of the Catalog Document (specification SpecSave)              *)
(***************************************************************************)
\* C27: the Catalog Document is written once, after all instruments have been
\* processed, and atomically: every step of a run either leaves the file on
\* disk as it is or puts the complete new document there, so that a run
\* killed at any point leaves the complete previous or the complete new one.
C27_FileReplacedInOneStep ==
    [][disk' # disk =>
           /\ upc = "new"
           /\ pos > Len(ProcessNewList)
           /\ disk' = catalog]_vars

(***************************************************************************)
(* Ticker entries without symbol or key (specification SpecEntries)        *)
(***************************************************************************)
Malformed(t) == ~t.symbol \/ ~t.key

\* C24: an entry with no symbol or no key causes no vendor fetch call and
\* adds nothing to the Catalog, in the rebuild runs and in the update runs
\* alike.
C24_MalformedEntryIsNeverFetched ==
    \A k \in 1..Len(entries) :
        Malformed(entries[k]) => k \notin requested /\ k \notin added

(***************************************************************************)
(* Writes to the console (specification SpecConsole)                       *)
(***************************************************************************)
\* C25: while a batch is running no two threads write to the console at the
\* same time: the retry notices of the pool threads and the progress and
\* failure lines of the coordinating thread pass one exclusive-access point.
C25_OneWriterAtATime == Cardinality(inPrint) <= 1

(***************************************************************************)
(* The paged fetch of the Upbit rebuild (specification SpecFetch)          *)
(***************************************************************************)
\* C29: with every request answered, fetch_candles ends after at most 20
\* requests and returns the candles in ascending date order, none dated
\* before start_date and no date twice.
C29_PagedFetchReturnsEachDayOnce ==
    (fpc = "returned" /\ raised = 0) =>
        /\ requests <= MAX_ITERATIONS
        /\ \A i \in 1..Len(filtered) : filtered[i] >= start_date
        /\ \A i \in 1..(Len(filtered) - 1) : filtered[i] <= filtered[i + 1]
        /\ \A i \in 1..(Len(filtered) - 1) : filtered[i] # filtered[i + 1]

====
